---- MODULE Spec2Model ----
(***************************************************************************)
(* Model of storage_data's StorageData glue (src/src/lib.rs): a lazily     *)
(* loaded, cached value bound to one key of the browser's Web Storage.     *)
(*                                                                         *)
(* Several glues (Cells) are bound to the same key of the same storage.    *)
(* All of them run the same code; the calls of one of them (Watched) are   *)
(* recorded, the others and the rest of the page are its environment.      *)
(* Every public operation of a glue is one action; the helpers it calls    *)
(* (resolve, save, finalize_use, get_data_with, set_data, get_item,        *)
(* set_item, remove_item) are operators threaded over a call record.  The  *)
(* environment decides, per operation, which failure (if any) the browser  *)
(* or the serializer produces.                                             *)
(***************************************************************************)
EXTENDS Naturals, Sequences, FiniteSets

VARIABLES
    cells,      \* the StorageData structs: cells[c] is the struct of glue c
    obs,        \* what an observer of the watched glue's calls has seen
    storage,    \* the Web Storage entry under the glues' key: None or Some(string)
    from_set,   \* Some(v) while the entry is the one a successful set(v) wrote
    last,       \* the most recent step, in full when the watched glue took it
    generated   \* the struct define_storage! generates, and its storage entries

vars == <<cells, obs, storage, from_set, last, generated>>

(***************************************************************************)
(* Bounds and basic types                                                  *)
(***************************************************************************)
\* Values of the stored type are 0 .. MaxValue.
MaxValue == 1

Cells == {"A", "B"}

Values == 0 .. MaxValue

\* Option<T>: None is the empty sequence, Some(x) the one-element sequence.
None == << >>

Some(x) == << x >>

\* Result<T, E>
Ok(x) == [ok |-> TRUE, val |-> x]

Err == [ok |-> FALSE, val |-> None]

\* What the environment makes fail during one operation:
\*   "unavailable": web_sys_storage() returns Err (no window / no storage)
\*   "serialize"  : the serialize_as function returns Err
\*   "quota"      : Storage.setItem throws (quota exceeded)
Faults == {"none", "unavailable", "serialize", "quota"}

(***************************************************************************)
(* The codec: serde_json on an unsigned integer.  Strings are sequences of *)
(* one-character strings.                                                  *)
(***************************************************************************)
Digit(d) == CASE d = 0 -> "0" [] d = 1 -> "1" [] d = 2 -> "2" [] d = 3 -> "3"
              [] d = 4 -> "4" [] d = 5 -> "5" [] d = 6 -> "6" [] d = 7 -> "7"
              [] d = 8 -> "8" [] d = 9 -> "9"

DigitChars == {"0", "1", "2", "3", "4", "5", "6", "7", "8", "9"}

DigitValue(ch) == CHOOSE d \in 0 .. 9 : Digit(d) = ch

RECURSIVE to_string(_)
to_string(n) == IF n < 10 THEN << Digit(n) >>
                ELSE Append(to_string(n \div 10), Digit(n % 10))

RECURSIVE from_str_digits(_)
from_str_digits(s) == IF Len(s) = 0 THEN 0
                      ELSE 10 * from_str_digits(SubSeq(s, 1, Len(s) - 1))
                           + DigitValue(s[Len(s)])

\* serdes::serialize_json; a failing serializer is a custom serialize_as.
serialize_as(value, fault) ==
    IF fault = "serialize" THEN Err ELSE Ok(to_string(value))

\* serdes::deserialize_json: a JSON number without sign, fraction or
\* leading zero; anything else is an error.
deserialize_as(serialized) ==
    IF /\ Len(serialized) > 0
       /\ \A i \in 1 .. Len(serialized) : serialized[i] \in DigitChars
       /\ (Len(serialized) > 1 => serialized[1] /= "0")
    THEN Ok(from_str_digits(serialized))
    ELSE Err

\* The closure handed to StorageData::new.
default_value == 0

\* A stored string no deserializer accepts.
Corrupt == << "x" >>

\* What other code of the page may leave under the key.
ExternalStrings == {to_string(v) : v \in Values} \cup {Corrupt}

(***************************************************************************)
(* The call record: the struct the method works on (sd), the storage       *)
(* entry (st), the environment's failure for this operation (fault), the   *)
(* Result the last fallible call produced (res), whether a panic is        *)
(* propagating, and how often each collaborator was called.                *)
(***************************************************************************)
Call(sd, st, fault) ==
    [sd |-> sd, st |-> st, fault |-> fault, res |-> "Ok", panicked |-> FALSE,
     wrote |-> FALSE, removed |-> FALSE,
     gets |-> 0, sets |-> 0, puts |-> 0, removes |-> 0,
     sers |-> 0, desers |-> 0, defaults |-> 0, loads |-> 0]

\* StorageKind::web_sys_storage: Ok unless the window or the storage is missing.
web_sys_storage(fault) == fault /= "unavailable"

\* StorageKind::get_item: Result<Option<String>, _>.
get_item(st, fault) == IF web_sys_storage(fault) THEN Ok(st) ELSE Err

\* StorageKind::set_item with the closure set_data hands it: the storage is
\* acquired first, then the value is serialized, then setItem is called.
set_item(m, value) ==
    LET m1 == [m EXCEPT !.sets = @ + 1] IN
    IF ~web_sys_storage(m.fault) THEN [m1 EXCEPT !.res = "Err"]
    ELSE LET serialized == serialize_as(value, m.fault)
             m2 == [m1 EXCEPT !.sers = @ + 1]
         IN  IF ~serialized.ok THEN [m2 EXCEPT !.res = "Err"]
             ELSE IF m.fault = "quota"
                  THEN [m2 EXCEPT !.puts = @ + 1, !.res = "Err"]
                  ELSE [m2 EXCEPT !.puts = @ + 1, !.res = "Ok", !.wrote = TRUE,
                                  !.st = Some(serialized.val)]

\* StorageKind::remove_item.
remove_item(m) ==
    LET m1 == [m EXCEPT !.removes = @ + 1] IN
    IF ~web_sys_storage(m.fault) THEN [m1 EXCEPT !.res = "Err"]
    ELSE [m1 EXCEPT !.res = "Ok", !.removed = TRUE, !.st = None]

\* get_data_with that never looks at the entry.
get_data_with_default_only(m) ==
    [result |-> Ok(default_value),
     m |-> [m EXCEPT !.gets = @ + 1, !.defaults = @ + 1]]

\* get_data_with with the storage's error propagated instead of dropped by
\* .ok().flatten(), and with an absent entry treated alike.
get_data_with_strict(m) ==
    LET item == get_item(m.st, m.fault)
        m1 == [m EXCEPT !.gets = @ + 1]
    IN  IF ~item.ok \/ item.val = None
        THEN [result |-> Err, m |-> m1]
        ELSE [result |-> deserialize_as(item.val[1]),
              m |-> [m1 EXCEPT !.desers = @ + 1]]

\* get_data_with: the value under the key, the default when the key is
\* absent or the storage unreachable, Err when the entry does not deserialize.
\* Returns the Result and the call record with its counters advanced.
get_data_with(m) ==
    LET item == get_item(m.st, m.fault)
        as_string == IF item.ok THEN item.val ELSE None     \* .ok().flatten()
        m1 == [m EXCEPT !.gets = @ + 1]
    IN  IF as_string = None
        THEN [result |-> Ok(default_value),
              m |-> [m1 EXCEPT !.defaults = @ + 1]]
        ELSE [result |-> deserialize_as(as_string[1]),
              m |-> [m1 EXCEPT !.desers = @ + 1]]

\* set_data that reports Ok whatever set_item returned.
set_data_swallow(m, value) == [set_item(m, value) EXCEPT !.res = "Ok"]

\* set_data
set_data(m, value) == set_item(m, value)

(***************************************************************************)
(* StorageData                                                             *)
(***************************************************************************)
\* A glue constructed with save_on_drop off.
new_unsaved ==
    [status |-> "live", value |-> None, mutated |-> FALSE,
     save_on_drop |-> FALSE, panic_on_cannot_deserialize |-> TRUE]

\* StorageData::new: a const fn, which only fills the struct.
new ==
    [status |-> "live", value |-> None, mutated |-> FALSE,
     save_on_drop |-> TRUE, panic_on_cannot_deserialize |-> TRUE]

\* StorageData::save_on_drop, the builder: it takes the glue and gives it
\* back.
save_on_drop(sd, update_on_drop) == [sd EXCEPT !.save_on_drop = update_on_drop]

\* A slot no glue has been constructed in yet.
Unborn ==
    [status |-> "unborn", value |-> None, mutated |-> FALSE,
     save_on_drop |-> TRUE, panic_on_cannot_deserialize |-> TRUE]

\* What is left of a glue that was dropped or consumed by take.
Gone(status) == [Unborn EXCEPT !.status = status]

\* resolve that asks the storage on every call, whatever the cell holds.
resolve_uncached(m) ==
    IF m.panicked THEN m
    ELSE LET r == get_data_with([m EXCEPT !.loads = @ + 1]) IN
         IF r.result.ok
         THEN [r.m EXCEPT !.sd.value = Some(r.result.val)]
         ELSE [r.m EXCEPT !.panicked = TRUE]

\* resolve that falls back to the default on an entry it cannot deserialize.
resolve_soft(m) ==
    IF m.panicked \/ m.sd.value /= None THEN m
    ELSE LET r == get_data_with([m EXCEPT !.loads = @ + 1]) IN
         IF r.result.ok
         THEN [r.m EXCEPT !.sd.value = Some(r.result.val)]
         ELSE [r.m EXCEPT !.sd.value = Some(default_value),
                          !.defaults = @ + 1]

\* resolve that panics on an entry it cannot deserialize whatever the flag.
resolve_hard(m) ==
    IF m.panicked \/ m.sd.value /= None THEN m
    ELSE LET r == get_data_with([m EXCEPT !.loads = @ + 1]) IN
         IF r.result.ok
         THEN [r.m EXCEPT !.sd.value = Some(r.result.val)]
         ELSE [r.m EXCEPT !.panicked = TRUE]

\* StorageData::resolve: OnceCell::get_or_init; a panic in the closure
\* leaves the cell empty.
resolve(m) ==
    IF m.panicked \/ m.sd.value /= None THEN m
    ELSE LET r == get_data_with([m EXCEPT !.loads = @ + 1]) IN
         IF r.result.ok
         THEN [r.m EXCEPT !.sd.value = Some(r.result.val)]
         ELSE IF ~m.sd.panic_on_cannot_deserialize
              THEN [r.m EXCEPT !.sd.value = Some(default_value),
                               !.defaults = @ + 1]
              ELSE [r.m EXCEPT !.panicked = TRUE]

\* get that marks the glue as mutated, as deref_mut does.
get_dirty(m) == resolve([m EXCEPT !.sd.mutated = TRUE])

\* StorageData::get
get(m) == resolve(m)

\* StorageData::get_mut
get_mut(m) == resolve(m)

\* The caller's assignment through the &mut Value that get_mut / deref_mut
\* returned.
write_through(m, w) ==
    IF m.panicked THEN m ELSE [m EXCEPT !.sd.value = Some(w)]

\* set that leaves the storage alone when the cell already holds a value.
set_lazy(m, value) ==
    IF m.sd.value /= None THEN [m EXCEPT !.sd.value = None]
    ELSE [set_data(m, value) EXCEPT !.sd.value = Some(value)]

\* StorageData::set
set(m, value) ==
    LET res == set_data(m, value)
        couldnt_set_and_it_was_initialized == m.sd.value /= None
    IN  IF couldnt_set_and_it_was_initialized
        THEN [res EXCEPT !.sd.value = None]
        ELSE [res EXCEPT !.sd.value = Some(value)]

\* is_set that resolves the glue to find out.
is_set_resolving(m) ==
    [m |-> resolve(m), ret |-> ~resolve(m).panicked]

\* StorageData::is_set: the call record (the storage is asked only when the
\* cell is empty) and the boolean returned.
is_set(m) ==
    IF m.sd.value /= None THEN [m |-> m, ret |-> TRUE]
    ELSE [m |-> [m EXCEPT !.gets = @ + 1],
          ret |-> get_item(m.st, m.fault).ok]

\* save without the skip: it writes on every call.
save_ungated(m) ==
    LET m1 == [m EXCEPT !.gets = @ + 1]
        m2 == resolve(m1)
    IN  IF m2.panicked THEN m2
        ELSE LET res == set_data(m2, m2.sd.value[1]) IN
             IF res.res = "Ok" THEN [res EXCEPT !.sd.mutated = FALSE]
             ELSE res

\* save that unmarks the glue whatever set_data returned.
save_forgets(m) ==
    LET was_changed == m.sd.mutated /\ m.sd.value /= None
        storage_contains_this_key == get_item(m.st, m.fault).ok
        m1 == [m EXCEPT !.gets = @ + 1]
    IN  IF ~was_changed /\ storage_contains_this_key
        THEN [m1 EXCEPT !.res = "Ok"]
        ELSE LET m2 == resolve(m1) IN
             IF m2.panicked THEN m2
             ELSE [set_data(m2, m2.sd.value[1]) EXCEPT !.sd.mutated = FALSE]

\* save that fills an empty cell with the default value instead of resolving.
save_caching_default(m) ==
    LET was_changed == m.sd.mutated /\ m.sd.value /= None
        storage_contains_this_key == get_item(m.st, m.fault).ok
        m1 == [m EXCEPT !.gets = @ + 1,
                        !.sd.value = IF @ = None THEN Some(default_value)
                                     ELSE @]
    IN  IF ~was_changed /\ storage_contains_this_key
        THEN [m1 EXCEPT !.res = "Ok"]
        ELSE LET res == set_data(m1, m1.sd.value[1]) IN
             IF res.res = "Ok" THEN [res EXCEPT !.sd.mutated = FALSE]
             ELSE res

\* StorageData::save
save(m) ==
    LET was_changed == m.sd.mutated /\ m.sd.value /= None
        storage_contains_this_key == get_item(m.st, m.fault).ok
        m1 == [m EXCEPT !.gets = @ + 1]
    IN  IF ~was_changed /\ storage_contains_this_key
        THEN [m1 EXCEPT !.res = "Ok"]
        ELSE LET m2 == resolve(m1) IN
             IF m2.panicked THEN m2
             ELSE LET res == set_data(m2, m2.sd.value[1]) IN
                  IF res.res = "Ok" THEN [res EXCEPT !.sd.mutated = FALSE]
                  ELSE res

\* finalize_use that saves whatever save_on_drop says.
finalize_use_always_saves(m, clear, do_save) ==
    LET m1 == IF do_save THEN [save(m) EXCEPT !.res = m.res] ELSE m IN
    IF m1.panicked THEN m1
    ELSE LET m2 == IF clear THEN [m1 EXCEPT !.sd.value = None] ELSE m1
         IN  [m2 EXCEPT !.sd.mutated = FALSE]

\* finalize_use that unwraps the result of save: a failed save panics and
\* leaves the glue as save left it.
finalize_use_unwrap(m, clear, do_save) ==
    LET m1 == IF do_save /\ m.sd.save_on_drop THEN save(m) ELSE m IN
    IF m1.panicked \/ m1.res = "Err" THEN [m1 EXCEPT !.panicked = TRUE]
    ELSE LET m2 == IF clear THEN [m1 EXCEPT !.sd.value = None] ELSE m1
         IN  [m2 EXCEPT !.sd.mutated = FALSE]

\* StorageData::finalize_use: it returns nothing, the result of save is
\* discarded (let _ = self.save()).
finalize_use(m, clear, do_save) ==
    LET m1 == IF do_save /\ m.sd.save_on_drop
              THEN [save(m) EXCEPT !.res = m.res] ELSE m IN
    IF m1.panicked THEN m1
    ELSE LET m2 == IF clear THEN [m1 EXCEPT !.sd.value = None] ELSE m1
         IN  [m2 EXCEPT !.sd.mutated = FALSE]

\* remove that removes the entry and leaves the glue as it was.
remove_keeps_cache(m) == remove_item(m)

\* StorageData::remove
remove(m) ==
    LET r == remove_item(m) IN
    IF r.res = "Err" THEN r
    ELSE [finalize_use(r, TRUE, FALSE) EXCEPT !.res = "Ok"]

\* drop that clears without saving.
drop_without_save(m) == finalize_use(m, TRUE, FALSE)

\* Drop::drop
drop(m) == finalize_use(m, TRUE, TRUE)

\* DerefMut::deref_mut
deref_mut(m) == get_mut([m EXCEPT !.sd.mutated = TRUE])

\* Deref::deref
deref(m) == get(m)

\* The last line of take and the end of its body: value.take()
\* .unwrap_or_else(default_value) on the resolved glue m, then the drop of
\* self.  When resolve panicked nothing is returned and self is dropped by
\* the unwinding.
take_value(m) ==
    LET taken == [m EXCEPT !.sd.value = None, !.panicked = FALSE,
                           !.defaults = IF m.panicked \/ m.sd.value /= None
                                        THEN @ ELSE @ + 1]
    IN  [m |-> drop(taken),
         panicked |-> m.panicked,
         ret |-> IF m.panicked THEN None
                 ELSE IF m.sd.value /= None THEN m.sd.value
                      ELSE Some(default_value)]

\* take that does not resolve before it takes the value out of the cell.
take_unresolved(m) == take_value(finalize_use(m, FALSE, TRUE))

\* StorageData::take: the call record after the body and the drop of self,
\* whether it panicked, and the value returned.
take(m) == take_value(resolve(finalize_use(m, FALSE, TRUE)))

(***************************************************************************)
(* Observation of the watched glue.  obs holds what an observer of its     *)
(* calls knows beside the struct's fields:                                 *)
(*   phase   "fresh" after construction, "get" after one get() that        *)
(*           returned, "get_get" after a second one, "other" otherwise.    *)
(* from_set is Some(v) while the storage entry is the one a successful     *)
(* set(v) of any glue wrote and nobody has written or removed it since.    *)
(* last is the record of the most recent step when the watched glue took   *)
(* it: the operation, its inputs, the state it started from, and what it   *)
(* returned and called.                                                    *)
(***************************************************************************)
Watched == "A"

Fresh == [phase |-> "fresh"]

NoOp(name) ==
    [op |-> name, arg |-> None, fault |-> "none",
     pre |-> Unborn, pre_obs |-> Fresh, pre_st |-> None, pre_from_set |-> None,
     res |-> "Ok", ret |-> None, is_set |-> FALSE, panicked |-> FALSE,
     wrote |-> FALSE, removed |-> FALSE,
     gets |-> 0, sets |-> 0, puts |-> 0, removes |-> 0,
     sers |-> 0, desers |-> 0, defaults |-> 0, loads |-> 0]

\* The record of one operation of the watched glue: m is the call record
\* after it.
Record(name, arg, fault, m, ret, isset, panicked) ==
    [op |-> name, arg |-> arg, fault |-> fault,
     pre |-> cells[Watched], pre_obs |-> obs, pre_st |-> storage,
     pre_from_set |-> from_set,
     res |-> m.res, ret |-> ret, is_set |-> isset, panicked |-> panicked,
     wrote |-> m.wrote, removed |-> m.removed,
     gets |-> m.gets, sets |-> m.sets, puts |-> m.puts, removes |-> m.removes,
     sers |-> m.sers, desers |-> m.desers, defaults |-> m.defaults,
     loads |-> m.loads]

ObservedAfter(name, m, panicked) ==
    [phase |-> IF name = "get" /\ ~panicked /\ obs.phase = "fresh" THEN "get"
               ELSE IF name = "get" /\ ~panicked /\ obs.phase = "get"
                    THEN "get_get"
                    ELSE "other"]

\* The state after an operation of glue c that ended with call record m.
Effect(c, name, arg, fault, m, ret, isset, panicked, status) ==
    /\ cells' = [cells EXCEPT ![c] = IF status = "live" THEN m.sd
                                     ELSE Gone(status)]
    /\ storage' = m.st
    /\ from_set' = IF name = "set" /\ m.wrote THEN arg
                   ELSE IF m.wrote \/ m.removed THEN None ELSE from_set
    /\ IF c = Watched
       THEN /\ obs' = ObservedAfter(name, m, panicked)
            /\ last' = Record(name, arg, fault, m, ret, isset, panicked)
       ELSE /\ obs' = obs
            /\ last' = NoOp("other")
    /\ UNCHANGED generated

Live(c) == cells[c].status = "live"

\* The arguments of the builder call save_on_drop that may follow new: the
\* watched glue is built with either setting or with no builder call, the
\* other glues with no builder call.
Builders(c) == IF c = Watched THEN BOOLEAN ELSE {}

(***************************************************************************)
(* The struct define_storage! generates: one glue per declared variable,   *)
(* each over its own web name.  storage_web_names lists the web names in   *)
(* declaration order (those of the crate documentation's example); a glue  *)
(* is named by its web name.  The variable generated holds the struct      *)
(* (glues), the storage entry of each web name (web) and the record of the *)
(* last call of one of the struct's functions (last).                      *)
(***************************************************************************)
storage_web_names == << "visited_times", "picked_products" >>

WebNames == {storage_web_names[i] : i \in 1 .. Len(storage_web_names)}

\* len: the literal the derive macro fills with the number of fields.
storage_len == Len(storage_web_names)

\* The record of a call that involved no glue.
NoCall(name) ==
    [op |-> name, list |-> FALSE, faults |-> [n \in WebNames |-> "none"],
     pre_glues |-> [n \in WebNames |-> Unborn],
     pre_web |-> [n \in WebNames |-> None],
     ok |-> TRUE, failed_storages |-> << >>, called |-> << >>, ret |-> 0]

\* No struct has been generated: its glues are slots not yet constructed.
NotGenerated ==
    [status |-> "unborn", glues |-> [n \in WebNames |-> Unborn],
     web |-> [n \in WebNames |-> None], last |-> NoCall("init")]

\* The struct and the storage at the start of a call of clear or save.
StorageCall(glues, web) ==
    [glues |-> glues, web |-> web, error |-> FALSE,
     failed_storages |-> << >>, called |-> << >>]

\* new of the generated struct
storage_new == [n \in WebNames |-> new]

\* len_initialized of the generated struct
storage_len_initialized(glues, web, faults) ==
    Cardinality({n \in WebNames :
                   is_set(Call(glues[n], web[n], faults[n])).ret})

\* What clear and save do with the result m of one glue's remove or save.
note_result(g, name, m, list_failed_storages) ==
    [g EXCEPT !.glues[name] = m.sd,
              !.web[name] = m.st,
              !.called = Append(@, name),
              !.error = @ \/ m.res = "Err",
              !.failed_storages =
                  IF m.res = "Err" /\ list_failed_storages
                  THEN Append(@, name) ELSE @]

\* clear that returns at the first glue whose remove fails.
RECURSIVE storage_clear_until_failure(_, _, _, _)
storage_clear_until_failure(g, i, faults, list_failed_storages) ==
    IF i > storage_len \/ g.error THEN g
    ELSE storage_clear_until_failure(
             note_result(g, storage_web_names[i],
                         remove(Call(g.glues[storage_web_names[i]],
                                     g.web[storage_web_names[i]],
                                     faults[storage_web_names[i]])),
                         list_failed_storages),
             i + 1, faults, list_failed_storages)

\* clear of the generated struct, from the i-th declared glue on.
RECURSIVE storage_clear(_, _, _, _)
storage_clear(g, i, faults, list_failed_storages) ==
    IF i > storage_len THEN g
    ELSE storage_clear(
             note_result(g, storage_web_names[i],
                         remove(Call(g.glues[storage_web_names[i]],
                                     g.web[storage_web_names[i]],
                                     faults[storage_web_names[i]])),
                         list_failed_storages),
             i + 1, faults, list_failed_storages)

\* save of the generated struct, from the i-th declared glue on.
RECURSIVE storage_save(_, _, _, _)
storage_save(g, i, faults, list_failed_storages) ==
    IF i > storage_len THEN g
    ELSE storage_save(
             note_result(g, storage_web_names[i],
                         save(Call(g.glues[storage_web_names[i]],
                                   g.web[storage_web_names[i]],
                                   faults[storage_web_names[i]])),
                         list_failed_storages),
             i + 1, faults, list_failed_storages)

(***************************************************************************)
(* Actions: one per public operation of a glue, plus the rest of the page  *)
(* writing or removing the entry.                                          *)
(***************************************************************************)
Init ==
    /\ cells = [c \in Cells |-> Unborn]
    /\ obs = Fresh
    /\ storage \in {None} \cup {Some(s) : s \in ExternalStrings}
    /\ from_set = None
    /\ last = NoOp("init")
    /\ generated = NotGenerated

New(c) ==
    /\ cells[c].status = "unborn"
    /\ cells' = [cells EXCEPT ![c] = new]
    /\ last' = IF c = Watched THEN [NoOp("new") EXCEPT !.pre_st = storage]
                ELSE NoOp("other")
    /\ UNCHANGED <<obs, storage, from_set, generated>>

\* new(key, default).save_on_drop(update_on_drop): the builder call chained
\* to new.
SaveOnDrop(c) ==
    /\ Live(c)
    /\ last.op = "new"
    /\ \E update_on_drop \in Builders(c) :
         cells' = [cells EXCEPT ![c] = save_on_drop(cells[c], update_on_drop)]
    /\ last' = NoOp("save_on_drop")
    /\ UNCHANGED <<obs, storage, from_set, generated>>

Get(c) ==
    /\ Live(c)
    /\ \E fault \in {"none", "unavailable"} :
         LET m == get(Call(cells[c], storage, fault)) IN
         Effect(c, "get", None, fault, m, m.sd.value, FALSE, m.panicked, "live")

Deref(c) ==
    /\ Live(c)
    /\ \E fault \in {"none", "unavailable"} :
         LET m == deref(Call(cells[c], storage, fault)) IN
         Effect(c, "deref", None, fault, m, m.sd.value, FALSE, m.panicked, "live")

GetMut(c) ==
    /\ Live(c)
    /\ \E fault \in {"none", "unavailable"}, w \in Values :
         LET m == get_mut(Call(cells[c], storage, fault)) IN
         Effect(c, "get_mut", Some(w), fault, write_through(m, w), m.sd.value,
                FALSE, m.panicked, "live")

DerefMut(c) ==
    /\ Live(c)
    /\ \E fault \in {"none", "unavailable"}, w \in Values :
         LET m == deref_mut(Call(cells[c], storage, fault)) IN
         Effect(c, "deref_mut", Some(w), fault, write_through(m, w), m.sd.value,
                FALSE, m.panicked, "live")

Set(c) ==
    /\ Live(c)
    /\ \E fault \in Faults, value \in Values :
         LET m == set(Call(cells[c], storage, fault), value) IN
         Effect(c, "set", Some(value), fault, m, None, FALSE, FALSE, "live")

IsSet(c) ==
    /\ Live(c)
    /\ \E fault \in {"none", "unavailable"} :
         LET r == is_set(Call(cells[c], storage, fault)) IN
         Effect(c, "is_set", None, fault, r.m, None, r.ret, FALSE, "live")

Remove(c) ==
    /\ Live(c)
    /\ \E fault \in {"none", "unavailable"} :
         LET m == remove(Call(cells[c], storage, fault)) IN
         Effect(c, "remove", None, fault, m, None, FALSE, FALSE, "live")

Save(c) ==
    /\ Live(c)
    /\ \E fault \in Faults :
         LET m == save(Call(cells[c], storage, fault)) IN
         Effect(c, "save", None, fault, m, None, FALSE, m.panicked, "live")

Take(c) ==
    /\ Live(c)
    /\ \E fault \in Faults :
         LET r == take(Call(cells[c], storage, fault)) IN
         Effect(c, "take", None, fault, r.m, r.ret, FALSE, r.panicked, "taken")

Drop(c) ==
    /\ Live(c)
    /\ \E fault \in Faults :
         LET m == drop(Call(cells[c], storage, fault)) IN
         Effect(c, "drop", None, fault, m, None, FALSE, m.panicked, "dropped")

\* Other code of the page sets the entry.
ExternalSetItem ==
    /\ \E s \in ExternalStrings : storage' = Some(s)
    /\ from_set' = None
    /\ last' = NoOp("other")
    /\ UNCHANGED <<cells, obs, generated>>

\* Other code of the page, or the user, removes the entry.
ExternalRemoveItem ==
    /\ storage' = None
    /\ from_set' = None
    /\ last' = NoOp("other")
    /\ UNCHANGED <<cells, obs, generated>>

Next ==
    \/ \E c \in Cells :
         \/ New(c)
         \/ SaveOnDrop(c)
         \/ Get(c)
         \/ Deref(c)
         \/ GetMut(c)
         \/ DerefMut(c)
         \/ Set(c)
         \/ IsSet(c)
         \/ Remove(c)
         \/ Save(c)
         \/ Take(c)
         \/ Drop(c)
    \/ ExternalSetItem
    \/ ExternalRemoveItem

Spec == Init /\ [][Next]_vars

(***************************************************************************)
(* resolve as a function of the struct it is called on.  new is the only   *)
(* constructor and it sets panic_on_cannot_deserialize to true; the field  *)
(* is a bool that resolve matches on, and no builder changes it.  Under    *)
(* ResolveSpec the watched glue starts as any value of the struct, the     *)
(* flag false included, over any storage, and the operations that call     *)
(* resolve are applied to it.                                              *)
(***************************************************************************)
StorageDatas ==
    [status : {"live"},
     value : {None} \cup {Some(v) : v \in Values},
     mutated : BOOLEAN,
     save_on_drop : BOOLEAN,
     panic_on_cannot_deserialize : BOOLEAN]

ResolveInit ==
    /\ \E sd \in StorageDatas :
         cells = [c \in Cells |-> IF c = Watched THEN sd ELSE Unborn]
    /\ obs = [phase |-> "other"]
    /\ storage \in {None} \cup {Some(s) : s \in ExternalStrings}
    /\ from_set = None
    /\ last = NoOp("init")
    /\ generated = NotGenerated

ResolveNext ==
    \/ Get(Watched)
    \/ GetMut(Watched)
    \/ Deref(Watched)
    \/ DerefMut(Watched)
    \/ Take(Watched)
    \/ Save(Watched)

ResolveSpec == ResolveInit /\ [][ResolveNext]_vars

(***************************************************************************)
(* The generated struct: its functions, and the caller using its glues     *)
(* directly (the fields are visible to it).                                *)
(***************************************************************************)
GeneratedLive == generated.status = "live"

\* The state after a call of one of the struct's functions.
StorageEffect(name, list, faults, glues, web, ok, failed, called, ret) ==
    /\ generated' =
          [status |-> "live", glues |-> glues, web |-> web,
           last |-> [op |-> name, list |-> list, faults |-> faults,
                     pre_glues |-> generated.glues, pre_web |-> generated.web,
                     ok |-> ok, failed_storages |-> failed,
                     called |-> called, ret |-> ret]]
    /\ UNCHANGED <<cells, obs, storage, from_set, last>>

StorageInit ==
    /\ cells = [c \in Cells |-> Unborn]
    /\ obs = Fresh
    /\ storage = None
    /\ from_set = None
    /\ last = NoOp("init")
    /\ \E web \in [WebNames -> {None} \cup {Some(s) : s \in ExternalStrings}] :
         generated = [NotGenerated EXCEPT !.web = web]

StorageNew ==
    /\ generated.status = "unborn"
    /\ generated' = [generated EXCEPT !.status = "live",
                                      !.glues = storage_new,
                                      !.last = [NoCall("new") EXCEPT
                                                  !.pre_web = generated.web]]
    /\ UNCHANGED <<cells, obs, storage, from_set, last>>

StorageLenInitialized ==
    /\ GeneratedLive
    /\ \E faults \in [WebNames -> {"none", "unavailable"}] :
         StorageEffect("len_initialized", FALSE, faults,
                       generated.glues, generated.web, TRUE, << >>, << >>,
                       storage_len_initialized(generated.glues, generated.web,
                                               faults))

\* The end of clear and of save: Err(failed_storages) if error, else Ok(()).
StorageResult(name, list, faults, g) ==
    StorageEffect(name, list, faults, g.glues, g.web, ~g.error,
                  g.failed_storages, g.called, 0)

StorageClear ==
    /\ GeneratedLive
    /\ \E list \in BOOLEAN, faults \in [WebNames -> {"none", "unavailable"}] :
         StorageResult("clear", list, faults,
                       storage_clear(StorageCall(generated.glues, generated.web),
                                     1, faults, list))

StorageSave ==
    /\ GeneratedLive
    /\ \E list \in BOOLEAN, faults \in [WebNames -> Faults] :
         StorageResult("save", list, faults,
                       storage_save(StorageCall(generated.glues, generated.web),
                                    1, faults, list))

\* The caller reads a glue of the struct through get.
FieldGet ==
    /\ GeneratedLive
    /\ \E n \in WebNames, fault \in {"none", "unavailable"} :
         LET m == get(Call(generated.glues[n], generated.web[n], fault)) IN
         StorageEffect("get", FALSE, [k \in WebNames |-> fault],
                       [generated.glues EXCEPT ![n] = m.sd], generated.web,
                       TRUE, << >>, << n >>, 0)

\* The caller writes w into a glue of the struct through deref_mut.
FieldDerefMut ==
    /\ GeneratedLive
    /\ \E n \in WebNames, fault \in {"none", "unavailable"}, w \in Values :
         LET m == write_through(
                    deref_mut(Call(generated.glues[n], generated.web[n], fault)),
                    w) IN
         StorageEffect("deref_mut", FALSE, [k \in WebNames |-> fault],
                       [generated.glues EXCEPT ![n] = m.sd], generated.web,
                       TRUE, << >>, << n >>, 0)

StorageNext ==
    \/ StorageNew
    \/ StorageLenInitialized
    \/ StorageClear
    \/ StorageSave
    \/ FieldGet
    \/ FieldDerefMut

StorageSpec == StorageInit /\ [][StorageNext]_vars

(***************************************************************************)
(* Properties.  W is the watched glue after the step, Op(name) says that   *)
(* the step just taken was its operation name.                             *)
(***************************************************************************)
W == cells[Watched]

Op(name) == last.op = name

Encoded(v) == Some(to_string(v))

Undecodable(st) == st /= None /\ ~deserialize_as(st[1]).ok

\* C1 (cache-once): the first get() of a freshly constructed glue asks the
\* storage exactly once; a second get() that follows it, with no other call
\* of the glue in between, asks the storage not at all, returns the value the
\* first one cached and changes neither the glue nor the storage.
C1_CacheOnce ==
    /\ (Op("get") /\ last.pre_obs.phase = "fresh") => last.gets = 1
    /\ (Op("get") /\ last.pre_obs.phase = "get") =>
          /\ last.gets = 0
          /\ last.pre.value /= None
          /\ last.ret = last.pre.value
          /\ W = last.pre
          /\ storage = last.pre_st

C1_Witness ==
    /\ Op("get")
    /\ last.pre_obs.phase = "get"
    /\ last.gets = 0
    /\ last.ret = Some(1)

\* C2 (finalize persists when dirty): deref_mut marks the glue as mutated and
\* leaves the value written through it in the cell; dropping a glue with
\* save_on_drop whose cell holds a value marked as mutated calls the
\* storage's set once, and when nothing fails the storage then holds the
\* encoding of that value.  Nothing but deref_mut marks a glue as mutated.
C2_DropPersistsDirty ==
    /\ (Op("deref_mut") /\ ~last.panicked) =>
          W.mutated /\ W.value = last.arg
    /\ (last.op \notin {"init", "new", "other"} /\ W.mutated
          /\ ~last.pre.mutated) => Op("deref_mut")
    /\ (Op("drop") /\ last.pre.save_on_drop /\ last.pre.mutated
          /\ last.pre.value /= None) =>
          /\ last.sets = 1
          /\ last.fault = "none" =>
                last.wrote /\ storage = Encoded(last.pre.value[1])

C2_Witness ==
    /\ Op("drop")
    /\ last.pre.save_on_drop /\ last.pre.mutated
    /\ last.pre.value = Some(1)
    /\ last.pre_st = None
    /\ storage = Encoded(1)

\* C3 (get_mut marks dirty): after every get_mut() that returned, the glue is
\* marked as mutated.
C3_GetMutMarksDirty ==
    (Op("get_mut") /\ ~last.panicked) => W.mutated

\* C4 (round trip): when the storage entry is the one a successful set(v) of
\* some glue wrote, get() on a freshly constructed glue over the same key,
\* with the storage reachable, returns v.
C4_RoundTrip ==
    /\ from_set /= None => storage = Encoded(from_set[1])
    /\ (Op("get") /\ last.pre_obs.phase = "fresh" /\ last.pre_from_set /= None
          /\ last.fault = "none") =>
          ~last.panicked /\ last.ret = last.pre_from_set

C4_Witness ==
    /\ Op("get")
    /\ last.pre_obs.phase = "fresh"
    /\ last.pre_from_set = Some(1)
    /\ last.ret = Some(1)

\* C5 (save on missing key): save() on a freshly constructed glue over a
\* reachable storage without an entry for the key writes the default value,
\* with exactly one call of the storage's setItem.
C5_SaveOnMissingKey ==
    (Op("save") /\ last.pre_obs.phase = "fresh" /\ last.pre_st = None
       /\ last.fault = "none") =>
       last.puts = 1 /\ storage = Encoded(default_value)

\* C6 (dirty gate on save): save() on a glue not marked as mutated, over a
\* reachable storage that has an entry for the key, calls neither set_item nor
\* setItem, leaves the entry as it was and returns Ok.  A glue on which only
\* get() was called since construction is not marked as mutated.
C6_DirtyGate ==
    /\ obs.phase \in {"fresh", "get", "get_get"} => ~W.mutated
    /\ (Op("save") /\ ~last.pre.mutated /\ last.pre_st /= None
          /\ last.fault /= "unavailable") =>
          /\ last.sets = 0 /\ last.puts = 0
          /\ last.res = "Ok" /\ ~last.panicked
          /\ storage = last.pre_st

C6_Witness ==
    /\ Op("save")
    /\ last.pre_obs.phase = "fresh"
    /\ last.pre_st = Encoded(1)
    /\ last.fault = "none"
    /\ last.res = "Ok" /\ last.sets = 0

\* What get() returns when it is the next call of the watched glue, with the
\* storage reachable.
NextGet == get(Call(W, storage, "none")).sd.value

\* C7 (set overwrites the cached value): after set(v), whatever it returned
\* and whatever the cell held before, the next get() returns v.
C7_SetOverwritesCache ==
    Op("set") => NextGet = last.arg

C9_DefaultFallback ==
    (Op("get") /\ last.pre.value = None
       /\ (last.pre_st = None \/ last.fault = "unavailable")) =>
       /\ ~last.panicked
       /\ last.ret = Some(default_value)
       /\ last.defaults = 1

C9_Witness ==
    /\ Op("get")
    /\ last.pre.value = None
    /\ last.fault = "unavailable"
    /\ last.pre_st = Encoded(1)
    /\ last.ret = Some(default_value)

\* C10 (decode failure, hard mode): get, get_mut, deref, deref_mut and take
\* on an empty cell of a glue with panic_on_cannot_deserialize, over a
\* reachable storage whose entry does not deserialize, panic: nothing is
\* returned, the default is not produced and the cell stays empty.
C10_DecodeFailurePanics ==
    (last.op \in {"get", "get_mut", "deref", "deref_mut", "take"}
       /\ last.pre.value = None /\ last.pre.panic_on_cannot_deserialize
       /\ last.fault /= "unavailable" /\ Undecodable(last.pre_st)) =>
       /\ last.panicked
       /\ last.ret = None
       /\ last.defaults = 0
       /\ W.value = None

C10_Witness ==
    /\ Op("get_mut")
    /\ last.pre_st = Some(Corrupt)
    /\ last.panicked
    /\ W.status = "live" /\ W.value = None

\* C11 (decode failure, soft mode): get, get_mut, deref, deref_mut and take
\* on an empty cell of a glue whose panic_on_cannot_deserialize is false,
\* over a reachable storage whose entry does not deserialize, do not panic:
\* the default value is produced once, cached and returned.
C11_DecodeFailureSoft ==
    (last.op \in {"get", "get_mut", "deref", "deref_mut", "take"}
       /\ last.pre.value = None /\ ~last.pre.panic_on_cannot_deserialize
       /\ last.fault /= "unavailable" /\ Undecodable(last.pre_st)) =>
       /\ ~last.panicked
       /\ last.ret = Some(default_value)
       /\ last.defaults = 1
       /\ last.desers = 1

C11_Witness ==
    /\ Op("get")
    /\ last.pre.value = None /\ ~last.pre.panic_on_cannot_deserialize
    /\ last.pre_st = Some(Corrupt)
    /\ last.fault = "none"
    /\ ~last.panicked
    /\ W.value = Some(default_value)

\* What is_set() returns when it is the next call of the watched glue, with
\* the storage reachable.
NextIsSet == is_set(Call(W, storage, "none")).ret

\* C12 (is_set after remove): after a remove() that returned Ok, with nobody
\* writing the entry since, is_set() returns false.
C12_RemoveThenIsSet ==
    (Op("remove") /\ last.res = "Ok") => ~NextIsSet

\* C13 (remove clears the cache): after a remove() that returned Ok the cell
\* is empty, the glue is not marked as mutated and the storage has no entry;
\* the next get(), whether or not it reaches the storage, loads afresh and
\* returns the default value, produced by one call of default_value.  Every
\* get() on such a glue over a storage without the entry does so.
C13_RemoveThenGet ==
    /\ (Op("remove") /\ last.res = "Ok") =>
          /\ last.removes = 1 /\ last.removed
          /\ W.value = None /\ ~W.mutated
          /\ storage = None
          /\ \A fault \in {"none", "unavailable"} :
                LET g == get(Call(W, storage, fault)) IN
                /\ ~g.panicked
                /\ g.loads = 1 /\ g.defaults = 1
                /\ g.sd.value = Some(default_value)
    /\ (Op("get") /\ last.pre.value = None /\ ~last.pre.mutated
          /\ last.pre_st = None) =>
          /\ ~last.panicked
          /\ last.loads = 1 /\ last.defaults = 1
          /\ last.ret = Some(default_value)

C13_Witness ==
    /\ Op("remove")
    /\ last.res = "Ok"
    /\ last.pre.value = Some(1) /\ last.pre.mutated
    /\ last.pre_st = Encoded(1)
    /\ W.value = None /\ ~W.mutated
    /\ NextGet = Some(default_value)

\* C14 (remove after a failed removal): a remove() that returned an error
\* has nevertheless emptied the cell and left the glue not marked as
\* mutated.
C14_RemoveFailureClears ==
    (Op("remove") /\ last.res = "Err") =>
       W.value = None /\ ~W.mutated

\* C15 (is_set): over a reachable storage is_set() returns true exactly when
\* the cell holds a value or the storage has an entry for the key.
C15_IsSetExact ==
    (Op("is_set") /\ last.fault = "none") =>
       (last.is_set <=> (last.pre.value /= None \/ last.pre_st /= None))

\* C16 (save and the mutated mark): a save() whose write succeeded returns
\* Ok and leaves the glue not marked as mutated; a save() whose set_data
\* failed, at the storage or at the serialization, returns the error and
\* leaves the mark as it was, and when the glue is still marked the next
\* save() calls set_data again, whatever happens to the storage then.
C16_SaveOutcome ==
    Op("save") =>
       /\ ~last.panicked
       /\ last.wrote => (last.res = "Ok" /\ ~W.mutated)
       /\ (last.sets = 1 /\ ~last.wrote) =>
             /\ last.res = "Err"
             /\ last.fault /= "none"
             /\ W.mutated = last.pre.mutated
             /\ storage = last.pre_st
             /\ W.mutated =>
                   \A fault \in Faults : save(Call(W, storage, fault)).sets = 1

C16_Witness ==
    /\ Op("save")
    /\ last.fault = "serialize"
    /\ last.pre.mutated /\ last.pre.value = Some(1)
    /\ last.pre_st = Encoded(0)
    /\ last.res = "Err"
    /\ W.mutated /\ W.value = Some(1)

\* C17 (retry after a failed set): after a set(v) that returned an error
\* because the storage could not be written, the next save(), with the
\* storage working again, calls set_data and writes v.
C17_SaveRetriesFailedSet ==
    (Op("set") /\ last.res = "Err"
       /\ last.fault \in {"unavailable", "quota"}) =>
       LET s == save(Call(W, storage, "none")) IN
       s.sets = 1 /\ s.st = Encoded(last.arg[1])

\* C18 (save_on_drop = false): drop and take of a glue built with
\* save_on_drop(false) call neither set_data nor setItem and leave the
\* storage as it was, whatever the cell holds and whether or not the glue is
\* marked as mutated; drop then does not even ask the storage for the key.
C18_NoSaveOnDrop ==
    (last.op \in {"drop", "take"} /\ ~last.pre.save_on_drop) =>
       /\ last.sets = 0 /\ last.sers = 0 /\ last.puts = 0
       /\ ~last.wrote /\ ~last.removed
       /\ storage = last.pre_st
       /\ Op("drop") => last.gets = 0

C18_Witness ==
    /\ Op("drop")
    /\ ~last.pre.save_on_drop
    /\ last.pre.mutated /\ last.pre.value = Some(1)
    /\ last.pre_st = Encoded(0)
    /\ last.fault = "none"
    /\ storage = Encoded(0)

\* C19 (drop always clears): whatever the glue held and whether the save of
\* drop was skipped, succeeded or failed, drop does not panic, no error
\* comes out of it, and the glue it leaves has an empty cell and is not
\* marked as mutated.
C19_DropAlwaysClears ==
    Op("drop") =>
       LET d == drop(Call(last.pre, last.pre_st, last.fault)) IN
       /\ d.st = storage /\ d.sets = last.sets
       /\ ~last.panicked /\ last.res = "Ok"
       /\ d.sd.value = None
       /\ ~d.sd.mutated

C19_Witness ==
    /\ Op("drop")
    /\ last.pre.save_on_drop
    /\ last.pre.mutated /\ last.pre.value = Some(1)
    /\ last.fault = "quota"
    /\ last.sets = 1 /\ last.puts = 1 /\ ~last.wrote
    /\ ~last.panicked

\* C20 (take): take() returns the value get() would have returned had it
\* been called in its place: the value of the cell, else the value the
\* storage entry deserializes to, else the default value; it panics exactly
\* when get() would.
C20_TakeReturnsGet ==
    Op("take") =>
       LET g == get(Call(last.pre, last.pre_st, last.fault)) IN
       /\ last.panicked = g.panicked
       /\ last.ret = g.sd.value
       /\ (~last.panicked /\ last.pre.value /= None) =>
             last.ret = last.pre.value
       /\ (~last.panicked /\ last.pre.value = None /\ last.pre_st /= None
             /\ last.fault /= "unavailable") =>
             last.ret = Some(deserialize_as(last.pre_st[1]).val)
       /\ (last.pre.value = None
             /\ (last.pre_st = None \/ last.fault = "unavailable")) =>
             last.ret = Some(default_value)

C20_Witness ==
    /\ Op("take")
    /\ last.pre.value = None
    /\ last.pre_st = Encoded(1)
    /\ last.fault = "none"
    /\ last.ret = Some(1)

\* C21 (one load per generation): a glue whose only calls since new() are
\* get()s has loaded once; a set(v) made then is no clear, so the get() that
\* follows it does not load again.
C21_SetCausesNoReload ==
    (Op("set") /\ last.pre_obs.phase \in {"get", "get_get"}) =>
       get(Call(W, storage, "none")).loads = 0

\* C22 (set surfaces failures): set(v) returns Err when v cannot be
\* serialized, and then setItem is not called and the storage entry is as
\* it was; it returns Err when the storage cannot be reached or setItem
\* throws, the entry again unchanged; it returns Ok only when setItem was
\* called and the entry written.
C22_SetSurfacesFailures ==
    Op("set") =>
       /\ last.fault = "serialize" =>
             /\ last.res = "Err"
             /\ last.sers = 1 /\ last.puts = 0
             /\ ~last.wrote /\ storage = last.pre_st
       /\ last.fault \in {"unavailable", "quota"} =>
             /\ last.res = "Err"
             /\ ~last.wrote /\ storage = last.pre_st
       /\ last.fault = "quota" => last.puts = 1
       /\ last.fault = "unavailable" => (last.sers = 0 /\ last.puts = 0)
       /\ last.res = "Ok" => (last.puts = 1 /\ last.wrote)

C22_Witness ==
    /\ Op("set")
    /\ last.fault = "serialize"
    /\ last.arg = Some(1)
    /\ last.pre_st = Encoded(0)
    /\ last.res = "Err"
    /\ storage = Encoded(0)

\* C23 (get has no effect beyond the load): get() leaves the mutated mark
\* and every field but the cell as they were, calls neither set_data,
\* setItem nor removeItem and leaves the storage as it was; on a full cell
\* it does not ask the storage and leaves the whole glue unchanged.
C23_GetFrame ==
    Op("get") =>
       /\ W.mutated = last.pre.mutated
       /\ [W EXCEPT !.value = last.pre.value] = last.pre
       /\ last.sets = 0 /\ last.puts = 0 /\ last.removes = 0
       /\ ~last.wrote /\ ~last.removed
       /\ storage = last.pre_st
       /\ last.pre.value /= None =>
             /\ W = last.pre
             /\ last.gets = 0 /\ last.loads = 0

C23_Witness ==
    /\ Op("get")
    /\ last.pre.value = None /\ last.pre.mutated
    /\ last.pre_st = Encoded(1)
    /\ W.value = Some(1) /\ W.mutated
    /\ storage = Encoded(1)

\* C24 (is_set is a query): is_set() leaves the glue, its cell and mark
\* included, and the storage as they were; it neither loads, deserializes
\* nor calls default_value, and asks the storage at most once.
C24_IsSetFrame ==
    Op("is_set") =>
       /\ W = last.pre
       /\ storage = last.pre_st
       /\ last.loads = 0 /\ last.desers = 0 /\ last.defaults = 0
       /\ last.sets = 0 /\ last.puts = 0 /\ last.removes = 0
       /\ last.gets <= 1
       /\ ~last.panicked

C24_Witness ==
    /\ Op("is_set")
    /\ last.pre.value = None
    /\ last.pre_st = Encoded(1)
    /\ last.fault = "none"
    /\ last.is_set
    /\ last.gets = 1
    /\ W.value = None

\* C25 (staleness): get() and get_mut() on a full cell return the value of
\* the cell without asking the storage, whatever the storage entry has
\* become since; they load only when the cell is empty.
C25_Staleness ==
    last.op \in {"get", "get_mut"} =>
       /\ last.pre.value /= None =>
             /\ ~last.panicked
             /\ last.ret = last.pre.value
             /\ last.gets = 0 /\ last.loads = 0
       /\ last.loads > 0 => last.pre.value = None

\* The first get() of the glue loaded 1, the page then replaced the entry
\* by one that does not deserialize, and the second get() returns 1.
C25_Witness ==
    /\ Op("get")
    /\ last.pre_obs.phase = "get"
    /\ last.pre.value = Some(1)
    /\ last.pre_st = Some(Corrupt)
    /\ last.ret = Some(1)
    /\ storage = Some(Corrupt)

\* C27 (set is deferred): set(v) leaves the storage entry as it was; the
\* entry changes only at drop or at save().
C27_SetIsDeferred ==
    Op("set") => storage = last.pre_st

\* C30 (marked implies full): set(v) on a glue that is marked as mutated
\* and whose cell holds a value leaves a glue that, if still marked, holds
\* a value.
C30_MutatedImpliesValue ==
    (Op("set") /\ last.pre.mutated /\ last.pre.value /= None) =>
       (W.mutated => W.value /= None)

\* C26 (construction): new() leaves the storage as it was and yields a
\* glue with an empty cell, not marked as mutated, with save_on_drop and
\* panic_on_cannot_deserialize both true.
C26_Construction ==
    Op("new") =>
       /\ W = [status |-> "live", value |-> None, mutated |-> FALSE,
               save_on_drop |-> TRUE, panic_on_cannot_deserialize |-> TRUE]
       /\ storage = last.pre_st
       /\ obs.phase = "fresh"

C26_Witness ==
    /\ Op("new")
    /\ last.pre_st = Encoded(1)
    /\ storage = Encoded(1)
    /\ W.status = "live" /\ W.value = None /\ W.save_on_drop

\* The record of the last call of a function of the generated struct.
GLast == generated.last

\* Whether remove, or save, on the glue named n, taken from the state the
\* last call started in and with the fault that call met at n, fails.
RemoveFails(n) ==
    remove(Call(GLast.pre_glues[n], GLast.pre_web[n], GLast.faults[n])).res
        = "Err"

SaveFails(n) ==
    save(Call(GLast.pre_glues[n], GLast.pre_web[n], GLast.faults[n])).res
        = "Err"

\* C28 (clear and save of the generated struct): clear(list) calls remove,
\* and save(list) calls save, on every glue once, in declaration order,
\* whichever of them fail, and each glue and its entry end as that call
\* leaves them; the result is Ok exactly when no glue failed, and otherwise
\* Err with the web names of the failed glues, in declaration order, when
\* list is true and with no names when it is false.
C28_ClearAndSaveAll ==
    /\ GLast.op = "clear" =>
          /\ GLast.called = storage_web_names
          /\ \A n \in WebNames :
                LET m == remove(Call(GLast.pre_glues[n], GLast.pre_web[n],
                                     GLast.faults[n])) IN
                generated.glues[n] = m.sd /\ generated.web[n] = m.st
          /\ GLast.ok <=> \A n \in WebNames : ~RemoveFails(n)
          /\ GLast.failed_storages =
                IF GLast.list THEN SelectSeq(storage_web_names, RemoveFails)
                ELSE << >>
    /\ GLast.op = "save" =>
          /\ GLast.called = storage_web_names
          /\ \A n \in WebNames :
                LET m == save(Call(GLast.pre_glues[n], GLast.pre_web[n],
                                   GLast.faults[n])) IN
                generated.glues[n] = m.sd /\ generated.web[n] = m.st
          /\ GLast.ok <=> \A n \in WebNames : ~SaveFails(n)
          /\ GLast.failed_storages =
                IF GLast.list THEN SelectSeq(storage_web_names, SaveFails)
                ELSE << >>

\* clear(true) whose first remove failed and whose second one removed an
\* entry.
C28_Witness ==
    /\ GLast.op = "clear"
    /\ GLast.list
    /\ GLast.faults[storage_web_names[1]] = "unavailable"
    /\ GLast.faults[storage_web_names[2]] = "none"
    /\ GLast.pre_web[storage_web_names[2]] = Encoded(1)
    /\ generated.web[storage_web_names[2]] = None
    /\ ~GLast.ok
    /\ GLast.failed_storages = << storage_web_names[1] >>

\* C29 (len_initialized): right after new() of the generated struct, over
\* a reachable storage that has none of the web names, len_initialized()
\* returns 0; it never returns more than len().
C29_LenInitialized ==
    GLast.op = "len_initialized" =>
       /\ GLast.ret <= storage_len
       /\ (/\ \A n \in WebNames : GLast.pre_glues[n] = new
           /\ \A n \in WebNames : GLast.pre_web[n] = None
           /\ \A n \in WebNames : GLast.faults[n] = "none") =>
             GLast.ret = 0

\* What get() on the glue sd exposes over the storage entry st when it meets
\* fault: whether it panics, and the value it returns.
Exposed(sd, st, fault) ==
    [panicked |-> get(Call(sd, st, fault)).panicked,
     value |-> get(Call(sd, st, fault)).sd.value]

\* C31 as stated (save changes no exposed value): over a reachable storage,
\* get() right after a save(), however the save ended, returns what get()
\* right before it would have returned.
C31_SaveKeepsExposedValue ==
    Op("save") =>
       Exposed(W, storage, "none") = Exposed(last.pre, last.pre_st, "none")

\* C31, amended: a save() that reached the storage leaves the cell as it
\* was, and get() right after it, whether or not it reaches the storage,
\* returns what get() right before it would have returned; a save() that
\* could not reach the storage fills an empty cell with the default value,
\* which is what get() returns before and after it when it cannot reach the
\* storage either.
C31_SaveKeepsExposedValueAmended ==
    Op("save") =>
       /\ last.fault /= "unavailable" =>
             /\ W.value = last.pre.value
             /\ \A fault \in {"none", "unavailable"} :
                   Exposed(W, storage, fault)
                      = Exposed(last.pre, last.pre_st, fault)
       /\ last.fault = "unavailable" =>
             /\ storage = last.pre_st
             /\ W.value = Exposed(last.pre, last.pre_st, "unavailable").value
             /\ Exposed(W, storage, "unavailable")
                   = Exposed(last.pre, last.pre_st, "unavailable")

\* A save() that could not reach the storage, on an empty cell over an entry
\* that is not the default: the cell now holds the default value.
C31_Witness ==
    /\ Op("save")
    /\ last.fault = "unavailable"
    /\ last.pre.value = None
    /\ last.pre_st = Encoded(1)
    /\ last.res = "Err"
    /\ W.value = Some(default_value)
    /\ Exposed(W, storage, "unavailable").value = Some(default_value)

\* The storage entry after glue sd is dropped over the entry st, with the
\* storage working.
AfterDrop(sd, st) == drop(Call(sd, st, "none")).st

\* Glue c is live, built with save_on_drop, holds a value and is not marked
\* as mutated.
LoadedAndClean(c) ==
    /\ Live(c)
    /\ cells[c].save_on_drop
    /\ cells[c].value /= None
    /\ ~cells[c].mutated

\* C32 (two glues over one key): when the watched glue holds a value
\* written through deref_mut and is still marked, and the other glue holds
\* a loaded value and is not marked, both built with save_on_drop, then
\* dropping the two in either order over a working storage leaves the
\* watched glue's value as the entry; the drop of the unmarked glue leaves
\* the entry as it finds it.  So it is when the watched glue is actually
\* dropped first, and when it is the unmarked one.
C32_CleanGlueNeverOverwrites ==
    /\ (/\ Live(Watched) /\ W.save_on_drop
        /\ W.value /= None /\ W.mutated
        /\ LoadedAndClean("B")) =>
          /\ AfterDrop(cells["B"], storage) = storage
          /\ AfterDrop(W, AfterDrop(cells["B"], storage)) = Encoded(W.value[1])
          /\ AfterDrop(cells["B"], AfterDrop(W, storage)) = Encoded(W.value[1])
    /\ (/\ Op("drop") /\ last.fault = "none"
        /\ last.pre.save_on_drop /\ last.pre.value /= None /\ last.pre.mutated
        /\ LoadedAndClean("B")) =>
          /\ storage = Encoded(last.pre.value[1])
          /\ AfterDrop(cells["B"], storage) = Encoded(last.pre.value[1])
    /\ (/\ Op("drop") /\ last.fault = "none"
        /\ last.pre.save_on_drop /\ last.pre.value /= None
        /\ ~last.pre.mutated /\ last.pre_st /= None) =>
          /\ last.sets = 0 /\ last.puts = 0
          /\ storage = last.pre_st

\* Both glues loaded 0, the watched one was changed to 1 and has just been
\* dropped: the entry is "1", and the drop of the other glue keeps it.
C32_Witness ==
    /\ Op("drop")
    /\ last.fault = "none"
    /\ last.pre.save_on_drop /\ last.pre.mutated
    /\ last.pre.value = Some(1)
    /\ last.pre_st = Encoded(0)
    /\ LoadedAndClean("B")
    /\ cells["B"].value = Some(0)
    /\ storage = Encoded(1)
    /\ AfterDrop(cells["B"], storage) = Encoded(1)

\* take up to the point where the value has been produced: finalize_use
\* and resolve.
TakeBody == resolve(finalize_use(Call(last.pre, last.pre_st, last.fault),
                                 FALSE, TRUE))

\* C33 (take is terminal): the drop of the consumed glue, which runs after
\* take() has produced its value, loads nothing and does not call setItem,
\* whatever the storage calls do; the whole take() calls setItem at most
\* once.
C33_TakeIsTerminal ==
    (Op("take") /\ ~last.panicked) =>
       /\ last.loads = TakeBody.loads
       /\ last.puts = TakeBody.puts
       /\ last.puts <= 1

====
